---- MODULE Spec2Model ----
(***************************************************************************)
(* Satell C++ extensions (src/src/satell_extensions.cpp): the native       *)
(* functions cpp_hello, cpp_version and cpp_split, the registration array  *)
(* satell_cpplib and the entry point luaopen_satell_cpp, run statement by  *)
(* statement against a Lua value stack.  Strings are byte sequences; a     *)
(* "const char*" is the byte buffer of a Lua string followed by its        *)
(* terminating zero byte.  The Lua C API calls behave as the Lua 5.4       *)
(* reference manual (named by src/examples/cpp_test.lua:388) documents.    *)
(***************************************************************************)
EXTENDS Integers, Sequences, FiniteSets, TLC

(* ---------------------------------------------------------------- bounds *)
MaxLen == 3        \* longest text argument drawn from Bytes
MaxDelimLen == 2   \* longest delimiter argument drawn from Bytes
MaxOpens == 2      \* export tables the script holds at once
MaxHandles == 2    \* foreign handles alive at once

(* ------------------------------------------------------------- byte data *)
NUL == 0
Comma == 44
Bytes == {NUL, Comma, 97}

\* "a,b,,c", "Hello,World" style inputs of examples/cpp_test.lua
ExampleText == <<97, 44, 98, 44, 44, 99>>
PathText == <<47, 97, 47, 98>>
Slash == 47

HelloPrefix ==
    <<72, 101, 108, 108, 111, 32, 102, 114, 111, 109, 32, 67, 43, 43, 50, 51, 44, 32>>
HelloSuffix == <<33>>
VersionPrefix ==
    <<83, 97, 116, 101, 108, 108, 32, 67, 43, 43, 32, 69, 120, 116, 101, 110,
      115, 105, 111, 110, 115, 32, 118, 49, 46, 48, 32, 40, 67, 43, 43>>
VersionSuffix == <<41>>
cplusplus == 202302
ModName == <<115, 97, 116, 101, 108, 108, 95, 99, 112, 112>>

Strs(n) == UNION {[1..k -> Bytes] : k \in 0..n}

(* ------------------------------------------------------- tagged values *)
Nil == [tag |-> "nil", n |-> 0, s |-> <<>>, id |-> 0, f |-> ""]
Bool(b) == [tag |-> "boolean", n |-> IF b THEN 1 ELSE 0, s |-> <<>>, id |-> 0, f |-> ""]
Num(k) == [tag |-> "number", n |-> k, s |-> <<>>, id |-> 0, f |-> ""]
Str(b) == [tag |-> "string", n |-> 0, s |-> b, id |-> 0, f |-> ""]
Tbl(i) == [tag |-> "table", n |-> 0, s |-> <<>>, id |-> i, f |-> ""]
Fn(g) == [tag |-> "function", n |-> 0, s |-> <<>>, id |-> 0, f |-> g]

EmptyTable == [arr |-> <<>>, hash |-> <<>>]

\* t[k] = v for an integer key (lua_rawseti) and for a name (lua_setfield)
RawSetI(t, k, v) ==
    [t EXCEPT !.arr = [x \in (DOMAIN t.arr) \cup {k} |-> IF x = k THEN v ELSE t.arr[x]]]
SetField(t, k, v) ==
    [t EXCEPT !.hash = [x \in (DOMAIN t.hash) \cup {k} |-> IF x = k THEN v ELSE t.hash[x]]]

(* --------------------------------------------------- C and C++ strings *)
\* the buffer a const char* from lua_tolstring points to
CBuf(b) == Append(b, NUL)

\* strlen: the number of bytes before the first zero byte
RECURSIVE strlen_from(_, _)
strlen_from(buf, k) ==
    IF buf[k + 1] = NUL THEN k ELSE strlen_from(buf, k + 1)
strlen(buf) == strlen_from(buf, 0)

\* std::string(const char*) and std::string_view(const char*)
FromCStr(buf) == SubSeq(buf, 1, strlen(buf))

\* the values buf[k] may read: the byte, or any byte when k is past the buffer
CharAt(buf, k) == IF k + 1 <= Len(buf) THEN {buf[k + 1]} ELSE Bytes
InBuffer(buf, k) == k + 1 <= Len(buf)

\* std::to_string / lua_Number to string for a non-negative integer
RECURSIVE Digits(_)
Digits(k) == IF k < 10 THEN <<48 + k>> ELSE Append(Digits(k \div 10), 48 + (k % 10))
tostring(v) == Digits(v.n)

(* ------------------------------------------------- StringUtils::split *)
npos == -1

\* std::string_view::find(char, pos): the first index >= pos holding ch
RECURSIVE find(_, _, _)
find(sv, ch, pos) ==
    IF pos >= Len(sv) THEN npos
    ELSE IF sv[pos + 1] = ch THEN pos
    ELSE find(sv, ch, pos + 1)

\* the while loop of StringUtils::split; a part is a view (pos, len) into str
RECURSIVE split_loop(_, _, _, _)
split_loop(sv, delimiter, start, result) ==
    IF start < Len(sv)
    THEN LET found == find(sv, delimiter, start)
             end == IF found = npos THEN Len(sv) ELSE found
         IN  split_loop(sv, delimiter, end + 1,
                        Append(result, [pos |-> start, len |-> end - start]))
    ELSE result

split(sv, delimiter) == split_loop(sv, delimiter, 0, <<>>)

\* the bytes a view designates: data() .. data() + size()
ViewBytes(buf, view) == SubSeq(buf, view.pos + 1, view.pos + view.len)

(* ------------------------------------------------------ satell_cpplib *)
NullEntry == [name |-> "", func |-> ""]
\* a registration array whose "split" entry names the wrong function
satell_cpplib_wrong_binding ==
    << [name |-> "cpp_hello", func |-> "cpp_hello"],
       [name |-> "cpp_version", func |-> "cpp_version"],
       [name |-> "split", func |-> "cpp_hello"],
       NullEntry >>
satell_cpplib ==
    << [name |-> "cpp_hello", func |-> "cpp_hello"],
       [name |-> "cpp_version", func |-> "cpp_version"],
       [name |-> "split", func |-> "cpp_split"],
       NullEntry >>

(* -------------------------------------------------------------- state *)
VARIABLES
    pc,        \* the statement the running native function is at, or "idle"/"done"
    callee,    \* the native function running
    entry,     \* the arguments the caller passed
    stack,     \* the value stack of the running call, index 1 = first argument
    tables,    \* the tables of the runtime: id -> [arr, hash]
    held,      \* ids of the tables the script keeps in its variables
    loc,       \* the C++ locals of the running function
    live,      \* the C++ objects owning memory that are alive
    outcome,   \* "none", "returned", "lua_error" or "cpp_exception"
    err,       \* the kind of the error raised
    nres,      \* the result count the function returned
    oob,       \* a byte past the end of a string buffer has been read
    handles,   \* foreign handles: id -> record
    hroots,    \* handles the script still references
    access     \* the outcome of the latest access to a foreign handle

vars == <<pc, callee, entry, stack, tables, held, loc, live, outcome, err, nres, oob,
          handles, hroots, access>>
callVars == <<pc, callee, entry, stack, tables, held, loc, live, outcome, err, nres, oob>>
handleVars == <<handles, hroots, access>>

NoLocals == [name |-> <<>>, str |-> <<>>, delim |-> <<>>, parts |-> <<>>, i |-> 0,
             greeting |-> <<>>, version |-> <<>>, l |-> 1]
NoAccess == [h |-> 0, result |-> "none", value |-> 0, state |-> "", released |-> FALSE]

Init ==
    /\ pc = "idle"
    /\ callee = ""
    /\ entry = <<>>
    /\ stack = <<>>
    /\ tables = <<>>
    /\ held = {}
    /\ loc = NoLocals
    /\ live = {}
    /\ outcome = "none"
    /\ err = ""
    /\ nres = 0
    /\ oob = FALSE
    /\ handles = <<>>
    /\ hroots = {}
    /\ access = NoAccess

(* ---------------------------------------------------- stack primitives *)
Top == Len(stack)
Push(v) == Append(stack, v)
Pop(st) == SubSeq(st, 1, Len(st) - 1)
\* the absolute position of a negative (top-relative) index
AbsIndex(st, idx) == IF idx < 0 THEN Len(st) + idx + 1 ELSE idx

NewTableId == CHOOSE i \in 1..(MaxOpens + 1) : i \notin DOMAIN tables
WithTable(tb, i, t) == [x \in (DOMAIN tb) \cup {i} |-> IF x = i THEN t ELSE tb[x]]

\* the tables reachable from a set of root ids through table values
RefsOf(t) ==
    {t.arr[k].id : k \in {x \in DOMAIN t.arr : t.arr[x].tag = "table"}}
    \cup {t.hash[k].id : k \in {x \in DOMAIN t.hash : t.hash[x].tag = "table"}}
RECURSIVE Reach(_)
Reach(roots) ==
    LET next == roots \cup UNION {RefsOf(tables[i]) : i \in roots \cap DOMAIN tables}
    IN  IF next = roots THEN roots ELSE Reach(next)

\* an allocation inside the runtime or the C++ library succeeds or fails
AllocOutcomes == {"ok", "fail"}

\* lua_error / luaL_error: the non-local exit to the nearest protected call
Raise(kind) ==
    /\ pc' = "done"
    /\ outcome' = "lua_error"
    /\ err' = kind
    /\ UNCHANGED <<callee, entry, tables, held, loc, live, nres, handleVars>>

\* a C++ exception with no handler in the function: its locals are destroyed
\* and it leaves the function into the runtime's frames, which end the process
\* or, in a runtime built as C++, catch it in the protected call's catch (...)
Throw ==
    /\ pc' = "done"
    /\ outcome' = "cpp_exception"
    /\ \E fate \in {"terminate", "runtime_catch_all"} : err' = fate
    /\ live' = {}
    /\ UNCHANGED <<callee, entry, stack, tables, held, loc, nres, oob, handleVars>>

\* return n
Return(n) ==
    /\ pc' = "done"
    /\ outcome' = "returned"
    /\ nres' = n
    /\ live' = {}
    /\ UNCHANGED <<callee, entry, stack, tables, held, loc, err, oob, handleVars>>

(* ------------------------------------------------------- the script *)
\* the values a script passes: strings (zero bytes included), numbers, others
Numbers == {7, 12}
TextValues ==
    {Str(b) : b \in Strs(MaxLen) \cup {ExampleText, PathText}}
    \cup {Num(k) : k \in Numbers} \cup {Nil, Bool(TRUE)} \cup {Tbl(t) : t \in held}
DelimValues ==
    {Str(b) : b \in Strs(MaxDelimLen) \cup {<<Slash>>}}
    \cup {Num(k) : k \in Numbers} \cup {Nil}
ShortTexts == {Str(b) : b \in Strs(1)} \cup {Num(7), Nil}

ArgLists(name) ==
    CASE name = "cpp_hello" ->
            {<<>>} \cup {<<v>> : v \in TextValues} \cup {<<Str(<<97>>), Nil>>}
      [] name = "cpp_version" -> {<<>>, <<Nil>>}
      [] OTHER ->
            {<<>>} \cup {<<v>> : v \in ShortTexts}
            \cup {<<v, d>> : v \in TextValues, d \in DelimValues}
            \cup {<<v, d, Nil>> : v \in ShortTexts, d \in DelimValues}

\* the first statement of each native function
EntryPc(func) ==
    CASE func = "cpp_hello" -> "cpp_hello_checkstring"
      [] func = "cpp_version" -> "cpp_version_string"
      [] func = "cpp_split" -> "cpp_split_checkstring1"
      [] OTHER -> "luaopen_createtable"

Restrict(tb, ids) == [x \in (DOMAIN tb) \cap ids |-> tb[x]]

\* linit.c / require("satell_cpp"): the loader calls luaopen_satell_cpp
script_require ==
    /\ pc = "idle"
    /\ Cardinality(held) < MaxOpens
    /\ pc' = EntryPc("luaopen_satell_cpp")
    /\ callee' = "luaopen_satell_cpp"
    /\ entry' = <<Str(ModName)>>
    /\ stack' = <<Str(ModName)>>
    /\ UNCHANGED <<tables, held, loc, live, outcome, err, nres, oob, handleVars>>

\* satell_cpp.<name>(args...): the function bound to name in an export table
script_call ==
    /\ pc = "idle"
    /\ \E t \in held : \E name \in DOMAIN tables[t].hash :
         /\ tables[t].hash[name].tag = "function"
         /\ \E args \in ArgLists(name) :
              /\ pc' = EntryPc(tables[t].hash[name].f)
              /\ callee' = tables[t].hash[name].f
              /\ entry' = args
              /\ stack' = args
    /\ UNCHANGED <<tables, held, loc, live, outcome, err, nres, oob, handleVars>>

\* the call is over: the script keeps or drops the result, the frame is
\* popped and the collector reclaims what nothing references any more
script_finish ==
    /\ pc = "done"
    /\ ~(outcome = "cpp_exception" /\ err = "terminate")
    /\ \E keep \in BOOLEAN :
         LET kept == IF /\ keep
                        /\ callee = "luaopen_satell_cpp"
                        /\ outcome = "returned"
                        /\ nres = 1
                        /\ stack[Top].tag = "table"
                     THEN held \cup {stack[Top].id}
                     ELSE held
         IN  /\ held' = kept
             /\ tables' = Restrict(tables, Reach(kept))
    /\ pc' = "idle"
    /\ callee' = ""
    /\ entry' = <<>>
    /\ stack' = <<>>
    /\ loc' = NoLocals
    /\ live' = {}
    /\ outcome' = "none"
    /\ err' = ""
    /\ nres' = 0
    /\ oob' = FALSE
    /\ UNCHANGED handleVars

\* the script drops an export table; the collector reclaims it if unreachable
script_drop ==
    /\ pc = "idle"
    /\ \E t \in held :
         /\ held' = held \ {t}
         /\ tables' = Restrict(tables, Reach(held \ {t}))
    /\ UNCHANGED <<pc, callee, entry, stack, loc, live, outcome, err, nres, oob, handleVars>>

(* ------------------------------------------------- luaopen_satell_cpp *)
\* luaL_newlib, first half: luaL_newlibtable = lua_createtable(L, 0, 3)
luaopen_createtable ==
    /\ pc = "luaopen_createtable"
    /\ \E a \in AllocOutcomes :
         IF a = "fail"
         THEN Raise("memory") /\ UNCHANGED <<stack, oob>>
         ELSE /\ tables' = WithTable(tables, NewTableId, EmptyTable)
              /\ stack' = Push(Tbl(NewTableId))
              /\ loc' = [loc EXCEPT !.l = 1]
              /\ pc' = "luaopen_setfuncs"
              /\ UNCHANGED <<callee, entry, held, live, outcome, err, nres, oob, handleVars>>

\* luaL_newlib, second half: one round of the luaL_setfuncs loop over
\* satell_cpplib: push the closure, lua_setfield(L, -2, l->name)
luaopen_setfuncs ==
    /\ pc = "luaopen_setfuncs"
    /\ LET l == satell_cpplib[loc.l]
           t == stack[Top].id
       IN  IF l.name = NullEntry.name
           THEN /\ pc' = "luaopen_return"
                /\ UNCHANGED <<callee, entry, stack, tables, held, loc, live, outcome,
                               err, nres, oob, handleVars>>
           ELSE \E a \in AllocOutcomes :
                  IF a = "fail"
                  THEN Raise("memory") /\ UNCHANGED <<stack, oob>>
                  ELSE /\ tables' = [tables EXCEPT ![t] = SetField(@, l.name, Fn(l.func))]
                       /\ loc' = [loc EXCEPT !.l = @ + 1]
                       /\ UNCHANGED <<pc, callee, entry, stack, held, live, outcome,
                                      err, nres, oob, handleVars>>

luaopen_return ==
    /\ pc = "luaopen_return"
    /\ Return(1)

(* ---------------------------------------------------- luaL_checkstring *)
\* luaL_checkstring(L, arg) storing the pointer in a local: a string is read
\* in place, a number is first converted to a string in its stack slot
\* (lua_tolstring), anything else raises the bad-argument error
luaL_checkstring(arg, local, nextpc) ==
    IF arg > Len(stack) \/ stack[arg].tag \notin {"string", "number"}
    THEN Raise("bad_argument") /\ UNCHANGED <<stack, oob>>
    ELSE IF stack[arg].tag = "number"
    THEN \E a \in AllocOutcomes :
           IF a = "fail"
           THEN Raise("memory") /\ UNCHANGED <<stack, oob>>
           ELSE /\ stack' = [stack EXCEPT ![arg] = Str(tostring(stack[arg]))]
                /\ loc' = [loc EXCEPT ![local] = CBuf(tostring(stack[arg]))]
                /\ pc' = nextpc
                /\ UNCHANGED <<callee, entry, tables, held, live, outcome, err, nres,
                               oob, handleVars>>
    ELSE /\ loc' = [loc EXCEPT ![local] = CBuf(stack[arg].s)]
         /\ pc' = nextpc
         /\ UNCHANGED <<callee, entry, stack, tables, held, live, outcome, err, nres,
                        oob, handleVars>>

\* lua_pushstring(L, s): pushes a copy of the bytes of s up to its first zero
lua_pushstring(buf, nextpc) ==
    \E a \in AllocOutcomes :
      IF a = "fail"
      THEN Raise("memory") /\ UNCHANGED <<stack, oob>>
      ELSE /\ stack' = Push(Str(FromCStr(buf)))
           /\ pc' = nextpc
           /\ UNCHANGED <<callee, entry, tables, held, loc, live, outcome, err, nres,
                          oob, handleVars>>

(* ----------------------------------------------------------- cpp_hello *)
cpp_hello_checkstring ==
    /\ pc = "cpp_hello_checkstring"
    /\ luaL_checkstring(1, "name", "cpp_hello_greeting")

\* std::string greeting = "Hello from C++23, " + std::string(name) + "!";
cpp_hello_greeting ==
    /\ pc = "cpp_hello_greeting"
    /\ \E a \in AllocOutcomes :
         IF a = "fail"
         THEN Throw
         ELSE /\ loc' = [loc EXCEPT !.greeting = HelloPrefix \o FromCStr(loc.name) \o HelloSuffix]
              /\ live' = live \cup {"greeting"}
              /\ pc' = "cpp_hello_pushstring"
              /\ UNCHANGED <<callee, entry, stack, tables, held, outcome, err, nres, oob,
                             handleVars>>

\* lua_pushstring(L, greeting.c_str());
cpp_hello_pushstring ==
    /\ pc = "cpp_hello_pushstring"
    /\ lua_pushstring(CBuf(loc.greeting), "cpp_hello_return")

cpp_hello_return ==
    /\ pc = "cpp_hello_return"
    /\ Return(1)

(* --------------------------------------------------------- cpp_version *)
cpp_version_string ==
    /\ pc = "cpp_version_string"
    /\ \E a \in AllocOutcomes :
         IF a = "fail"
         THEN Throw
         ELSE /\ loc' = [loc EXCEPT !.version = VersionPrefix \o Digits(cplusplus) \o VersionSuffix]
              /\ live' = live \cup {"version"}
              /\ pc' = "cpp_version_pushstring"
              /\ UNCHANGED <<callee, entry, stack, tables, held, outcome, err, nres, oob,
                             handleVars>>

cpp_version_pushstring ==
    /\ pc = "cpp_version_pushstring"
    /\ lua_pushstring(CBuf(loc.version), "cpp_version_return")

cpp_version_return ==
    /\ pc = "cpp_version_return"
    /\ Return(1)

(* ----------------------------------------------------------- cpp_split *)
cpp_split_checkstring1 ==
    /\ pc = "cpp_split_checkstring1"
    /\ luaL_checkstring(1, "str", "cpp_split_checkstring2")

cpp_split_checkstring2 ==
    /\ pc = "cpp_split_checkstring2"
    /\ luaL_checkstring(2, "delim", "cpp_split_validate")

\* if (delim[1] != '\0') return luaL_error(L, "delimiter must be ...");
cpp_split_validate ==
    /\ pc = "cpp_split_validate"
    /\ oob' = (oob \/ ~InBuffer(loc.delim, 1))
    /\ \E second \in CharAt(loc.delim, 1) :
         IF second # NUL
         THEN Raise("delimiter must be a single character") /\ UNCHANGED stack
         ELSE /\ pc' = "cpp_split_split"
              /\ UNCHANGED <<callee, entry, stack, tables, held, loc, live, outcome, err,
                             nres, handleVars>>

\* auto parts = StringUtils::split(str, delim[0]);
cpp_split_split ==
    /\ pc = "cpp_split_split"
    /\ LET result == split(FromCStr(loc.str), loc.delim[1])
       IN  \E a \in AllocOutcomes :
             IF a = "fail" /\ Len(result) > 0
             THEN Throw
             ELSE /\ loc' = [loc EXCEPT !.parts = result, !.i = 0]
                  /\ live' = live \cup {"parts"}
                  /\ pc' = "cpp_split_createtable"
                  /\ UNCHANGED <<callee, entry, stack, tables, held, outcome, err, nres,
                                 oob, handleVars>>

\* lua_createtable(L, static_cast<int>(parts.size()), 0);
cpp_split_createtable ==
    /\ pc = "cpp_split_createtable"
    /\ \E a \in AllocOutcomes :
         IF a = "fail"
         THEN Raise("memory") /\ UNCHANGED <<stack, oob>>
         ELSE /\ tables' = WithTable(tables, NewTableId, EmptyTable)
              /\ stack' = Push(Tbl(NewTableId))
              /\ pc' = "cpp_split_loop"
              /\ UNCHANGED <<callee, entry, held, loc, live, outcome, err, nres, oob,
                             handleVars>>

\* for (...; i < parts.size(); ...) lua_pushlstring(L, parts[i].data(), parts[i].size());
cpp_split_pushlstring ==
    /\ pc = "cpp_split_loop"
    /\ IF loc.i < Len(loc.parts)
       THEN \E a \in AllocOutcomes :
              IF a = "fail"
              THEN Raise("memory") /\ UNCHANGED <<stack, oob>>
              ELSE /\ stack' = Push(Str(ViewBytes(loc.str, loc.parts[loc.i + 1])))
                   /\ pc' = "cpp_split_rawseti"
                   /\ UNCHANGED <<callee, entry, tables, held, loc, live, outcome, err,
                                  nres, oob, handleVars>>
       ELSE /\ pc' = "cpp_split_return"
            /\ UNCHANGED <<callee, entry, stack, tables, held, loc, live, outcome, err,
                           nres, oob, handleVars>>

\* lua_rawseti(L, -2, static_cast<lua_Integer>(i + 1)); i++
cpp_split_rawseti ==
    /\ pc = "cpp_split_rawseti"
    /\ LET t == stack[AbsIndex(stack, -2)]
       IN  IF t.tag = "table"
           THEN /\ tables' = [tables EXCEPT ![t.id] = RawSetI(@, loc.i + 1, stack[Top])]
                /\ stack' = Pop(stack)
                /\ loc' = [loc EXCEPT !.i = @ + 1]
                /\ pc' = "cpp_split_loop"
                /\ UNCHANGED <<callee, entry, held, live, outcome, err, nres, oob,
                               handleVars>>
           ELSE Raise("api_violation") /\ UNCHANGED <<stack, oob>>

\* a cpp_split that returns the number of parts instead of 1
cpp_split_return_count ==
    /\ pc = "cpp_split_return"
    /\ Return(Len(loc.parts))
cpp_split_return ==
    /\ pc = "cpp_split_return"
    /\ Return(1)

(* ------------------------------------------------- foreign handles *)
\* the documented create_object pattern (examples/cpp_test.lua, "Use Smart
\* Pointers for Memory Management") and the life of the handles it makes:
\* Constructed -> Live -> Finalizing -> Tombstoned
HandleInts == {Num(1), Num(2), Nil}
NoHandleRunning == \A h \in DOMAIN handles : handles[h].state # "Constructed"

\* luaL_checkinteger, make_unique<MyClass>(value), lua_newuserdata, the
\* payload stored in the userdata, luaL_setmetatable(L, "MyClass")
create_object ==
    /\ NoHandleRunning
    /\ Len(handles) < MaxHandles
    /\ \E v \in HandleInts :
         /\ v.tag = "number"
         /\ handles' = Append(handles, [state |-> "Constructed", payload |-> v.n,
                                        finalizer |-> TRUE, finalized |-> 0,
                                        released |-> FALSE])
    /\ UNCHANGED <<callVars, hroots, access>>

\* return 1: the handle is on the stack and the script references it
create_object_return ==
    /\ \E h \in DOMAIN handles :
         /\ handles[h].state = "Constructed"
         /\ handles' = [handles EXCEPT ![h].state = "Live"]
         /\ hroots' = hroots \cup {h}
    /\ UNCHANGED <<callVars, access>>

\* the script drops its reference to a handle
script_unref ==
    /\ NoHandleRunning
    /\ \E h \in hroots : hroots' = hroots \ {h}
    /\ UNCHANGED <<callVars, handles, access>>

\* Live -> Finalizing: the collector finds the handle unreachable and runs
\* its finalizer, the payload still valid; a handle without a finalizer is
\* reclaimed as it is
collector_finalize ==
    /\ \E h \in DOMAIN handles :
         /\ handles[h].state = "Live"
         /\ h \notin hroots
         /\ handles' = IF handles[h].finalizer
                       THEN [handles EXCEPT ![h].state = "Finalizing",
                                            ![h].finalized = @ + 1]
                       ELSE [handles EXCEPT ![h].state = "Reclaimed"]
    /\ UNCHANGED <<callVars, hroots, access>>

\* Finalizing -> Tombstoned: the finalizer has returned, the payload pointer
\* is cleared
collector_tombstone ==
    /\ \E h \in DOMAIN handles :
         /\ handles[h].state = "Finalizing"
         /\ handles' = [handles EXCEPT ![h].state = "Tombstoned",
                                       ![h].payload = 0,
                                       ![h].released = TRUE]
    /\ UNCHANGED <<callVars, hroots, access>>

\* an access(handle) that reads the payload without the tombstone check
foreign_access_unchecked ==
    /\ NoHandleRunning
    /\ \E h \in DOMAIN handles :
         access' = [h |-> h, result |-> "value", value |-> handles[h].payload,
                    state |-> handles[h].state, released |-> handles[h].released]
    /\ UNCHANGED <<callVars, handles, hroots>>

\* access(handle) from native code that still holds it: the tombstone flag
\* is checked first, then the payload is read
foreign_access ==
    /\ NoHandleRunning
    /\ \E h \in DOMAIN handles :
         access' = IF handles[h].state = "Tombstoned"
                   THEN [h |-> h, result |-> "UseAfterFinalize", value |-> 0,
                         state |-> handles[h].state, released |-> handles[h].released]
                   ELSE [h |-> h, result |-> "value", value |-> handles[h].payload,
                         state |-> handles[h].state, released |-> handles[h].released]
    /\ UNCHANGED <<callVars, handles, hroots>>

NextHandles ==
    \/ create_object
    \/ create_object_return
    \/ script_unref
    \/ collector_finalize
    \/ collector_tombstone
    \/ foreign_access

SpecHandles == Init /\ [][NextHandles]_vars

(* ------------------------------------------------------ specification *)
Next ==
    \/ script_require
    \/ script_call
    \/ script_finish
    \/ script_drop
    \/ luaopen_createtable
    \/ luaopen_setfuncs
    \/ luaopen_return
    \/ cpp_hello_checkstring
    \/ cpp_hello_greeting
    \/ cpp_hello_pushstring
    \/ cpp_hello_return
    \/ cpp_version_string
    \/ cpp_version_pushstring
    \/ cpp_version_return
    \/ cpp_split_checkstring1
    \/ cpp_split_checkstring2
    \/ cpp_split_validate
    \/ cpp_split_split
    \/ cpp_split_createtable
    \/ cpp_split_pushlstring
    \/ cpp_split_rawseti
    \/ cpp_split_return

Spec == Init /\ [][Next]_vars

(* ------------------------------------------- vocabulary of the claims *)
Returned == pc = "done" /\ outcome = "returned"
Failed(kind) == pc = "done" /\ outcome = "lua_error" /\ err = kind
IsStr(v) == v.tag = "string"

\* a call split(text, delimiter) with a string text and a string delimiter
SplitCall == callee = "cpp_split" /\ Len(entry) >= 2 /\ IsStr(entry[1]) /\ IsStr(entry[2])
SplitText == entry[1].s
SplitDelim == entry[2].s
SplitReturned == SplitCall /\ Returned /\ stack[Top].tag = "table"

\* the result table read as a script reads it: t[1], t[2], ..., t[n]
ResultArr == tables[stack[Top].id].arr
ContiguousKeys == DOMAIN ResultArr = 1..Cardinality(DOMAIN ResultArr)
ResultParts == [k \in 1..Cardinality(DOMAIN ResultArr) |-> ResultArr[k].s]

\* the fields of text: what lies before, between and after the delimiters
RECURSIVE Fields(_, _)
Fields(text, d) ==
    IF \A k \in 1..Len(text) : text[k] # d
    THEN <<text>>
    ELSE LET p == CHOOSE k \in 1..Len(text) :
                     text[k] = d /\ \A j \in 1..(k - 1) : text[j] # d
         IN  <<SubSeq(text, 1, p - 1)>> \o Fields(SubSeq(text, p + 1, Len(text)), d)

Occurrences(text, d) == Cardinality({k \in 1..Len(text) : text[k] = d})

RECURSIVE Join(_, _)
Join(parts, d) ==
    IF Len(parts) = 0 THEN <<>>
    ELSE IF Len(parts) = 1 THEN parts[1]
    ELSE parts[1] \o <<d>> \o Join(Tail(parts), d)

(* ------------------------------------------------------------- claims *)

\* C1: split(text, d) with a one-byte delimiter returns, in order and at the
\* keys 1..n, the fields of text between the delimiters, empty fields between
\* adjacent delimiters and after a leading one included (the empty field after
\* a trailing delimiter may be absent); "a,b,,c" split at "," is a, b, "", c.
C1_SplitReturnsFields ==
    (SplitReturned /\ Len(SplitDelim) = 1) =>
        /\ ContiguousKeys
        /\ \/ ResultParts = Fields(SplitText, SplitDelim[1])
           \/ ResultParts \o << <<>> >> = Fields(SplitText, SplitDelim[1])
        /\ (SplitText = ExampleText /\ SplitDelim = <<Comma>>) =>
               ResultParts = << <<97>>, <<98>>, <<>>, <<99>> >>

\* C2: a delimiter longer than one byte is rejected by the validation error
\* before StringUtils::split runs and before a result table exists.
C2_LongDelimiterRejected ==
    (/\ SplitCall
     /\ Len(SplitDelim) > 1
     /\ pc \notin {"cpp_split_checkstring1", "cpp_split_checkstring2", "cpp_split_validate"})
    => /\ Failed("delimiter must be a single character")
       /\ "parts" \notin live
       /\ Len(stack) = Len(entry)

\* C3: a call of split with an argument count other than 2 ends in an arity
\* error and no statement of the native body runs.
C3_ArityCheckedFirst ==
    (callee = "cpp_split" /\ Len(entry) # 2) =>
        /\ pc \in {"cpp_split_checkstring1", "done"}
        /\ pc = "done" => Failed("arity")

\* C5: a string read of a value that is not a string fails with the
\* bad-argument (type mismatch) error and leaves the stack slot as it was.
C5_StringReadNeverCoerces ==
    /\ (/\ callee \in {"cpp_hello", "cpp_split"}
        /\ Len(entry) >= 1
        /\ ~IsStr(entry[1])
        /\ pc \notin {"cpp_hello_checkstring", "cpp_split_checkstring1"})
       => (Failed("bad_argument") /\ stack[1] = entry[1])
    /\ (/\ callee = "cpp_split"
        /\ Len(entry) >= 2
        /\ IsStr(entry[1])
        /\ ~IsStr(entry[2])
        /\ pc \notin {"cpp_split_checkstring1", "cpp_split_checkstring2"})
       => (Failed("bad_argument") /\ stack[2] = entry[2])

\* C6: no C++ exception leaves cpp_hello, cpp_version or cpp_split: a call
\* ends by returning or by a Lua error.
C6_NoExceptionLeaves ==
    callee \in {"cpp_hello", "cpp_version", "cpp_split"} => outcome # "cpp_exception"

\* C7: cpp_hello(name) returns the prefix, all bytes of name and "!", and
\* split of a text without the delimiter returns the one-element list [text].
C7_StringsPassUnchanged ==
    /\ (callee = "cpp_hello" /\ Returned /\ Len(entry) >= 1 /\ IsStr(entry[1]))
       => stack[Top] = Str(HelloPrefix \o entry[1].s \o HelloSuffix)
    /\ (/\ SplitReturned
        /\ Len(SplitDelim) = 1
        /\ Occurrences(SplitText, SplitDelim[1]) = 0)
       => (ContiguousKeys /\ ResultParts = <<SplitText>>)

\* C10: the parts of split(text, d) joined with d give text again, and there
\* is one part more than there are occurrences of d in text.
C10_JoinReproducesText ==
    (SplitReturned /\ Len(SplitDelim) = 1) =>
        /\ ContiguousKeys
        /\ Join(ResultParts, SplitDelim[1]) = SplitText
        /\ Len(ResultParts) = Occurrences(SplitText, SplitDelim[1]) + 1

(* ----------------------------------------------- claims that hold *)

\* an argument slot holds the argument passed, a number read as a string
\* having been converted to its string form in place
ArgKept(i) ==
    \/ stack[i] = entry[i]
    \/ entry[i].tag = "number" /\ stack[i] = Str(tostring(entry[i]))

ExportNames == {"cpp_hello", "cpp_version", "split"}
OwnFunction(name) ==
    CASE name = "cpp_hello" -> "cpp_hello"
      [] name = "cpp_version" -> "cpp_version"
      [] OTHER -> "cpp_split"
IsExportTable(t) ==
    /\ DOMAIN t.arr = {}
    /\ DOMAIN t.hash = ExportNames
    /\ \A name \in ExportNames : t.hash[name] = Fn(OwnFunction(name))

\* C8: however often luaopen_satell_cpp runs, the table it returns is a new
\* table holding exactly cpp_hello, cpp_version and split, each bound to its
\* own function; the tables returned earlier stay as they were, the new table
\* references none of them, and a table the script has dropped is reclaimed.
C8_RegistrationIdempotent ==
    /\ \A t \in held : t \in DOMAIN tables /\ IsExportTable(tables[t])
    /\ (callee = "luaopen_satell_cpp" /\ Returned) =>
          /\ nres = 1
          /\ stack[Top].tag = "table"
          /\ stack[Top].id \notin held
          /\ IsExportTable(tables[stack[Top].id])
          /\ Reach({stack[Top].id}) = {stack[Top].id}
    /\ pc = "idle" => DOMAIN tables = held

\* a second registration has returned while the table of the first is held
C8_Witness ==
    /\ callee = "luaopen_satell_cpp"
    /\ Returned
    /\ held # {}
    /\ stack[Top].id \notin held

C11_ValidationReadsInBounds ==
    callee = "cpp_split" => ~oob

\* the C++ objects alive that own heap memory: the greeting and the version
\* string, and the parts vector once it holds an element
OwningObjects == {o \in live : o = "parts" => Len(loc.parts) > 0}

\* C12: when a Lua error leaves cpp_hello, cpp_version or cpp_split, no C++
\* object owning memory is alive, so the non-local exit skips no destructor.
C12_NoOwnerAliveAtLuaError ==
    (/\ callee \in {"cpp_hello", "cpp_version", "cpp_split"}
     /\ pc = "done"
     /\ outcome = "lua_error")
    => OwningObjects = {}

====
